---------------------------- MODULE Spec2Model ----------------------------
(***************************************************************************)
(* A model of src/github_api.py, a FastAPI facade over the GitHub REST    *)
(* API.                                                                    *)
(*                                                                         *)
(* Upstream JSON objects are records whose DOMAIN is the set of keys the   *)
(* object carries; a JSON null in a string-valued field is the value None. *)
(* An upstream reply is a transport failure, or a status with (for 200) a  *)
(* body.  Every fetch function is an operator from its arguments and the   *)
(* replies it receives to a result [raised, value, calls]: the exception   *)
(* it raises (or NoException), the value it returns, and the upstream GETs *)
(* it issued, in order.  The handlers are state machines whose steps are   *)
(* the awaited fetch functions.  The synchronous fetch_* helpers (lines     *)
(* 119-173) and get_team_members are called by no route and are left out.  *)
(***************************************************************************)
EXTENDS Integers, Sequences, FiniteSets, TLC

VARIABLES
    GITHUB_TOKEN,   \* module global, read once from the environment (line 39)
    upstream,       \* what the provider answers to each kind of call
    pc,             \* position of the request being served
    endpoint,       \* the route of the request being served
    args,           \* its path / query parameters
    locals,         \* the handler's local variables assigned so far
    calls,          \* upstream GETs issued for this request, in order
    exception,      \* the exception caught by the handler, if any
    response        \* the body the handler returned

vars == <<GITHUB_TOKEN, upstream, pc, endpoint, args, locals, calls, exception, response>>

-----------------------------------------------------------------------------
(* Bounds of the model *)

MaxUpstream == 11   \* longest upstream list
MaxCombo == 3       \* longest list whose per-item variations are all enumerated
MaxLabels == 2      \* longest label list of an issue
MaxClock == 2       \* readings of the wall clock

(* Program constants *)

LIMIT == 10         \* commits[:10], prs[:10], issues[:10]
ShortIdLen == 7     \* commit["sha"][:7]
OK200 == 200        \* response.status_code == 200

-----------------------------------------------------------------------------
(* Python values *)

None == "None"

Min(a, b) == IF a < b THEN a ELSE b

\* s[:n]
Take(s, n) == SubSeq(s, 1, Min(n, Len(s)))

\* d.get(k, default)
Get(d, k, default) == IF k \in DOMAIN d THEN d[k] ELSE default

\* the key a chain of subscripts d[k1][k2].. fails on ("" when none)
RECURSIVE MissingAt(_, _)
MissingAt(d, path) ==
    IF path = <<>> THEN ""
    ELSE IF Head(path) \notin DOMAIN d THEN Head(path)
    ELSE MissingAt(d[Head(path)], Tail(path))

\* the first failing subscript among several chains evaluated in order
RECURSIVE FirstMissing(_, _)
FirstMissing(d, paths) ==
    IF paths = <<>> THEN ""
    ELSE IF MissingAt(d, Head(paths)) # "" THEN MissingAt(d, Head(paths))
    ELSE FirstMissing(d, Tail(paths))

DIGITS == <<"0", "1", "2", "3", "4", "5", "6", "7", "8", "9">>

\* str(n) for a non-negative integer, as a sequence of characters
RECURSIVE Str(_)
Str(n) == IF n < 10 THEN <<DIGITS[n + 1]>>
          ELSE Append(Str(n \div 10), DIGITS[(n % 10) + 1])

UPPER == <<"A", "B", "C", "D", "E", "F", "G", "H", "I", "J", "K", "L", "M",
           "N", "O", "P", "Q", "R", "S", "T", "U", "V", "W", "X", "Y", "Z">>
LOWER == <<"a", "b", "c", "d", "e", "f", "g", "h", "i", "j", "k", "l", "m",
           "n", "o", "p", "q", "r", "s", "t", "u", "v", "w", "x", "y", "z">>

LowerChar(c) ==
    IF \E i \in DOMAIN UPPER : UPPER[i] = c
    THEN LOWER[CHOOSE i \in DOMAIN UPPER : UPPER[i] = c]
    ELSE c

\* s.lower(), s a sequence of characters
Lower(s) == [i \in DOMAIN s |-> LowerChar(s[i])]

\* sub in s
Contains(s, sub) ==
    \E k \in 0..(Len(s) - Len(sub)) : SubSeq(s, k + 1, k + Len(sub)) = sub

RECURSIVE Sum(_)
Sum(s) == IF s = <<>> THEN 0 ELSE Head(s) + Sum(Tail(s))

-----------------------------------------------------------------------------
(* Exceptions and results of the fetch functions *)

NoException == [type |-> "none", msg |-> <<>>]

\* KeyError(k); str(e) is the repr of the key
KeyError(k) == [type |-> "KeyError", msg |-> <<"'", k, "'">>]

\* httpx.RequestError raised by client.get on a transport failure
RequestError == [type |-> "RequestError", msg |-> <<"All connection attempts failed">>]

Return(v, issued) == [raised |-> NoException, value |-> v, calls |-> issued]
Raise(e, issued) == [raised |-> e, calls |-> issued]

(* Upstream replies *)

TransportFailure == [net |-> "error"]
Status(s) == [net |-> "ok", status |-> s]
Ok(b) == [net |-> "ok", status |-> OK200, body |-> b]

\* how a call ended, for the log of upstream calls
Outcome(reply) ==
    IF reply.net = "error" THEN "transport"
    ELSE IF reply.status = OK200 THEN "200"
    ELSE IF reply.status \in 200..299 THEN "2xx"
    ELSE "non2xx"

Call(name, reply) == [call |-> name, outcome |-> Outcome(reply)]

-----------------------------------------------------------------------------
(* The fetch functions.  `reply` is what client.get returns (or fails with)  *)

\* variant: the whole upstream list, without the window
FirstTen_unbounded(items) == items

\* lines 260, 312, 351: the [:10] window over an upstream list
FirstTen(items) == Take(items, LIMIT)

\* [x[key] for x in items], and the KeyError it raises ("" when none)
Pluck(items, key) == [i \in DOMAIN items |-> items[i][key]]

MissingIn(items, key) ==
    IF \E i \in DOMAIN items : key \notin DOMAIN items[i] THEN key ELSE ""

\* the first KeyError among keys looked up in order ("" when none is raised)
FirstNonEmpty(keys) ==
    IF \E i \in DOMAIN keys : keys[i] # ""
    THEN keys[CHOOSE i \in DOMAIN keys : keys[i] # "" /\ \A j \in 1..(i - 1) : keys[j] = ""]
    ELSE ""

get_organization_data(organization, reply) ==
    LET issued == <<Call("org", reply)>> IN
    IF reply.net = "error" THEN Raise(RequestError, issued)
    ELSE IF reply.status = OK200 THEN Return(reply.body, issued)
    ELSE Return([name |-> organization,
                 description |-> <<organization, " Organization">>], issued)

\* line 247
RepositoryNotFound(repo_name) ==
    [name |-> repo_name, description |-> "Repository not found"]

get_repository_data(organization, repo_name, reply) ==
    LET issued == <<Call("repo", reply)>> IN
    IF reply.net = "error" THEN Raise(RequestError, issued)
    ELSE IF reply.status = OK200 THEN
        LET repo == reply.body
            missing == FirstMissing(repo, << <<"name">>, <<"stargazers_count">>,
                           <<"forks_count">>, <<"html_url">>, <<"updated_at">> >>)
        IN  IF missing # "" THEN Raise(KeyError(missing), issued)
            ELSE Return([name |-> repo.name,
                         description |-> Get(repo, "description", ""),
                         language |-> Get(repo, "language", "Unknown"),
                         stars |-> repo.stargazers_count,
                         forks |-> repo.forks_count,
                         url |-> repo.html_url,
                         lastUpdated |-> repo.updated_at], issued)
    ELSE Return(RepositoryNotFound(repo_name), issued)

\* lines 275-277: the change counts of a commit whose detail fetch succeeded
DetailFiles(commit_detail) == Get(commit_detail, "files", <<>>)

ChangeStats(commit_detail) ==
    LET files == DetailFiles(commit_detail) IN
    [files_changed |-> Len(files),
     additions |-> Sum([k \in DOMAIN files |-> Get(files[k], "additions", 0)]),
     deletions |-> Sum([k \in DOMAIN files |-> Get(files[k], "deletions", 0)])]

\* lines 291-293: the change counts of a commit whose detail fetch failed
NoChangeStats == [files_changed |-> 0, additions |-> 0, deletions |-> 0]

\* lines 267-280 and 283-296: one entry of detailed_commits
CommitEntry(commit, repo_name, stats) ==
    [id |-> Take(commit.sha, ShortIdLen),
     message |-> commit.commit.message,
     author |-> commit.commit.author.name,
     date |-> commit.commit.author.date,
     repository |-> repo_name,
     url |-> commit.html_url,
     description |-> commit.commit.message,
     files_changed |-> stats.files_changed,
     additions |-> stats.additions,
     deletions |-> stats.deletions,
     commit_url |-> commit.html_url,
     author_avatar |-> IF "author" \in DOMAIN commit
                       THEN commit.author.avatar_url ELSE None]

CommitMissing(commit) ==
    FirstMissing(commit,
        << <<"commit", "message">>, <<"commit", "author", "name">>,
           <<"commit", "author", "date">>, <<"html_url">> >>
        \o (IF "author" \in DOMAIN commit THEN << <<"author", "avatar_url">> >> ELSE <<>>))

\* lines 260-296: the loop over commits[:10], from its i-th iteration on
RECURSIVE CommitLoop(_, _, _, _, _, _)
CommitLoop(commits, i, details, repo_name, detailed_commits, issued) ==
    IF i > Len(commits) THEN Return(detailed_commits, issued)
    ELSE LET commit == commits[i] IN
         IF "sha" \notin DOMAIN commit THEN Raise(KeyError("sha"), issued)
         ELSE LET detail_response == details[i]
                  issued2 == Append(issued, Call("commit_detail", detail_response))
              IN  IF detail_response.net = "error" THEN Raise(RequestError, issued2)
                  ELSE IF CommitMissing(commit) # ""
                       THEN Raise(KeyError(CommitMissing(commit)), issued2)
                  ELSE CommitLoop(commits, i + 1, details, repo_name,
                           Append(detailed_commits,
                               CommitEntry(commit, repo_name,
                                   IF detail_response.status = OK200
                                   THEN ChangeStats(detail_response.body)
                                   ELSE NoChangeStats)),
                           issued2)

get_repository_commits(organization, repo_name, reply, details) ==
    LET issued == <<Call("commits", reply)>> IN
    IF reply.net = "error" THEN Raise(RequestError, issued)
    ELSE IF reply.status = OK200
         THEN CommitLoop(FirstTen(reply.body), 1, details, repo_name, <<>>, issued)
    ELSE Return(<<>>, issued)

\* lines 313-335: one entry of detailed_prs
PullRequestEntry(pr, repo_name) ==
    [id |-> Str(pr.number),
     title |-> pr.title,
     author |-> pr.user.login,
     status |-> pr.state,
     repository |-> repo_name,
     url |-> pr.html_url,
     createdAt |-> pr.created_at,
     updatedAt |-> pr.updated_at,
     description |-> Get(pr, "body", ""),
     labels |-> Pluck(Get(pr, "labels", <<>>), "name"),
     assignees |-> Pluck(Get(pr, "assignees", <<>>), "login"),
     reviewers |-> Pluck(Get(pr, "requested_reviewers", <<>>), "login"),
     comments |-> Get(pr, "comments", 0),
     commits |-> Get(pr, "commits", 0),
     additions |-> Get(pr, "additions", 0),
     deletions |-> Get(pr, "deletions", 0),
     changed_files |-> Get(pr, "changed_files", 0),
     author_avatar |-> pr.user.avatar_url,
     draft |-> Get(pr, "draft", FALSE),
     merged |-> Get(pr, "merged", FALSE),
     mergeable |-> Get(pr, "mergeable", None)]

PullRequestMissing(pr) ==
    FirstNonEmpty(<<
        FirstMissing(pr, << <<"number">>, <<"title">>, <<"user", "login">>, <<"state">>,
                            <<"html_url">>, <<"created_at">>, <<"updated_at">> >>),
        MissingIn(Get(pr, "labels", <<>>), "name"),
        MissingIn(Get(pr, "assignees", <<>>), "login"),
        MissingIn(Get(pr, "requested_reviewers", <<>>), "login"),
        MissingAt(pr, <<"user", "avatar_url">>) >>)

get_repository_pull_requests(organization, repo_name, reply) ==
    LET issued == <<Call("prs", reply)>> IN
    IF reply.net = "error" THEN Raise(RequestError, issued)
    ELSE IF reply.status = OK200 THEN
        LET prs == FirstTen(reply.body)
            missing == FirstNonEmpty([i \in DOMAIN prs |-> PullRequestMissing(prs[i])])
        IN  IF missing # "" THEN Raise(KeyError(missing), issued)
            ELSE Return([i \in DOMAIN prs |-> PullRequestEntry(prs[i], repo_name)], issued)
    ELSE Return(<<>>, issued)

HIGH == <<"h", "i", "g", "h">>
LOW == <<"l", "o", "w">>

\* an empty dict, the default of issue.get("reactions", {})
EmptyDict == [k \in {} |-> None]

\* variant: no entry is taken for a pull request
IsPullRequest_never(issue) == FALSE

\* line 353: the issues endpoint lists pull requests too
IsPullRequest(issue) == "pull_request" \in DOMAIN issue

\* variant: the "low" test ahead of the "high" test
Priority_lowfirst(labels) ==
    IF \E i \in DOMAIN labels : Contains(Lower(labels[i].name), LOW) THEN "low"
    ELSE IF \E i \in DOMAIN labels : Contains(Lower(labels[i].name), HIGH) THEN "high"
    ELSE "medium"

\* lines 355-359: priority from the label names
Priority(labels) ==
    IF \E i \in DOMAIN labels : Contains(Lower(labels[i].name), HIGH) THEN "high"
    ELSE IF \E i \in DOMAIN labels : Contains(Lower(labels[i].name), LOW) THEN "low"
    ELSE "medium"

\* any() stops at the first "high" label: a label without a name raises
\* KeyError unless a "high" label comes before it
PriorityRaises(labels) ==
    \E m \in DOMAIN labels :
        /\ "name" \notin DOMAIN labels[m]
        /\ \A j \in 1..(m - 1) :
              /\ "name" \in DOMAIN labels[j]
              /\ ~Contains(Lower(labels[j].name), HIGH)

IssueMissing(issue) ==
    FirstNonEmpty(<<
        IF PriorityRaises(Get(issue, "labels", <<>>)) THEN "name" ELSE "",
        FirstMissing(issue, << <<"number">>, <<"title">>, <<"user", "login">>, <<"state">>,
                               <<"html_url">>, <<"created_at">>, <<"updated_at">> >>),
        MissingIn(Get(issue, "labels", <<>>), "name"),
        MissingIn(Get(issue, "assignees", <<>>), "login"),
        MissingAt(issue, <<"user", "avatar_url">>) >>)

\* lines 361-388: one entry of detailed_issues
IssueEntry(issue, repo_name) ==
    LET reactions == Get(issue, "reactions", EmptyDict) IN
    [id |-> Str(issue.number),
     title |-> issue.title,
     author |-> issue.user.login,
     status |-> issue.state,
     priority |-> Priority(Get(issue, "labels", <<>>)),
     repository |-> repo_name,
     url |-> issue.html_url,
     createdAt |-> issue.created_at,
     updatedAt |-> issue.updated_at,
     description |-> Get(issue, "body", ""),
     labels |-> Pluck(Get(issue, "labels", <<>>), "name"),
     assignees |-> Pluck(Get(issue, "assignees", <<>>), "login"),
     comments |-> Get(issue, "comments", 0),
     author_avatar |-> issue.user.avatar_url,
     milestone |-> IF "milestone" \in DOMAIN issue
                   THEN Get(issue.milestone, "title", None) ELSE None,
     locked |-> Get(issue, "locked", FALSE),
     closed_at |-> Get(issue, "closed_at", None),
     reactions |-> [total_count |-> Get(reactions, "total_count", 0),
                    thumbs_up |-> Get(reactions, "+1", 0),
                    thumbs_down |-> Get(reactions, "-1", 0),
                    laugh |-> Get(reactions, "laugh", 0),
                    hooray |-> Get(reactions, "hooray", 0),
                    confused |-> Get(reactions, "confused", 0),
                    heart |-> Get(reactions, "heart", 0)]]

\* variant: pull requests are dropped before the window is taken
get_repository_issues_filterfirst(organization, repo_name, reply) ==
    LET issued == <<Call("issues", reply)>> IN
    IF reply.net = "error" THEN Raise(RequestError, issued)
    ELSE IF reply.status = OK200 THEN
        LET issues == FirstTen(SelectSeq(reply.body, LAMBDA issue : ~IsPullRequest(issue)))
            missing == FirstNonEmpty([i \in DOMAIN issues |-> IssueMissing(issues[i])])
        IN  IF missing # "" THEN Raise(KeyError(missing), issued)
            ELSE Return([i \in DOMAIN issues |-> IssueEntry(issues[i], repo_name)], issued)
    ELSE Return(<<>>, issued)

\* lines 340-391
get_repository_issues(organization, repo_name, reply) ==
    LET issued == <<Call("issues", reply)>> IN
    IF reply.net = "error" THEN Raise(RequestError, issued)
    ELSE IF reply.status = OK200 THEN
        LET issues == SelectSeq(FirstTen(reply.body), LAMBDA issue : ~IsPullRequest(issue))
            missing == FirstNonEmpty([i \in DOMAIN issues |-> IssueMissing(issues[i])])
        IN  IF missing # "" THEN Raise(KeyError(missing), issued)
            ELSE Return([i \in DOMAIN issues |-> IssueEntry(issues[i], repo_name)], issued)
    ELSE Return(<<>>, issued)

get_user_data(username, reply) ==
    LET issued == <<Call("user", reply)>> IN
    IF reply.net = "error" THEN Raise(RequestError, issued)
    ELSE IF reply.status = OK200 THEN
        LET user == reply.body IN
        IF "login" \notin DOMAIN user THEN Raise(KeyError("login"), issued)
        ELSE Return([username |-> user.login,
                     name |-> Get(user, "name", None),
                     avatar_url |-> Get(user, "avatar_url", None),
                     bio |-> Get(user, "bio", None),
                     public_repos |-> Get(user, "public_repos", 0),
                     followers |-> Get(user, "followers", 0),
                     following |-> Get(user, "following", 0)], issued)
    ELSE Return([username |-> username, name |-> username], issued)

\* variant: no filter on the owner
OwnedBy_anyone(repo, username) == TRUE

\* line 466: the filter of the list comprehension
OwnedBy(repo, username) == repo.owner.login = username

UserRepoMissing(repo, username) ==
    IF MissingAt(repo, <<"owner", "login">>) # "" THEN MissingAt(repo, <<"owner", "login">>)
    ELSE IF OwnedBy(repo, username)
         THEN FirstMissing(repo, << <<"id">>, <<"name">>, <<"full_name">>,
                  <<"stargazers_count">>, <<"forks_count">>, <<"updated_at">>,
                  <<"html_url">>, <<"private">>, <<"fork">> >>)
    ELSE ""

\* lines 452-464: one entry of user_repos
UserRepoEntry(repo) ==
    [id |-> repo.id,
     name |-> repo.name,
     full_name |-> repo.full_name,
     description |-> Get(repo, "description", ""),
     language |-> Get(repo, "language", "Unknown"),
     stargazers_count |-> repo.stargazers_count,
     forks_count |-> repo.forks_count,
     updated_at |-> repo.updated_at,
     html_url |-> repo.html_url,
     private |-> repo.private,
     fork |-> repo.fork]

get_user_repositories(username, reply) ==
    LET issued == <<Call("user_repos", reply)>> IN
    IF reply.net = "error" THEN Raise(RequestError, issued)
    ELSE IF reply.status = OK200 THEN
        LET all_repos == reply.body
            missing == FirstNonEmpty([i \in DOMAIN all_repos |->
                                         UserRepoMissing(all_repos[i], username)])
            owned == SelectSeq(all_repos, LAMBDA repo : OwnedBy(repo, username))
        IN  IF missing # "" THEN Raise(KeyError(missing), issued)
            ELSE Return([i \in DOMAIN owned |-> UserRepoEntry(owned[i])], issued)
    ELSE Return(<<>>, issued)

-----------------------------------------------------------------------------
(* The handlers *)

\* variant: only the empty string is rejected
Truthy_nonempty(token) == token # ""

\* line 182: `if not GITHUB_TOKEN` rejects None and the empty string
Truthy(token) == token # None /\ token # ""

\* lines 183, 402, 476, 505
NotConfigured == [error |-> <<"GitHub token not configured">>]

\* variant: a fixed message instead of str(e)
ErrorBody_generic(e) == [error |-> <<"Internal Server Error">>]

\* lines 216, 416, 499, 533: return {"error": str(e)}
ErrorBody(e) == [error |-> e.msg]

DataEndpoints == {"github-data", "user", "user-repositories", "user-repository"}
BundleEndpoints == {"github-data", "user-repository"}

\* the fetch functions a handler awaits, in order
Program(ep) ==
    CASE ep = "github-data" -> <<"org", "repo", "commits", "prs", "issues">>
      [] ep = "user" -> <<"user", "user_repos">>
      [] ep = "user-repositories" -> <<"user", "user_repos">>
      [] ep = "user-repository" -> <<"repo", "commits", "prs", "issues">>
      [] OTHER -> <<>>

After(ep, step) ==
    LET p == Program(ep)
        i == CHOOSE k \in DOMAIN p : p[k] = step
    IN  IF i = Len(p) THEN "return" ELSE p[i + 1]

NoLocals == [k \in {} |-> None]
NoResponse == [k \in {} |-> None]

Assign(env, name, v) ==
    [k \in DOMAIN env \cup {name} |-> IF k = name THEN v ELSE env[k]]

\* the owner and repository a bundle handler passes to the fetch functions
Owner == IF endpoint = "github-data" THEN args.org ELSE args.username
RepoName == IF endpoint = "github-data" THEN args.repo ELSE args.repo_name

\* a handler is entered: the credential check, then the first await
Enter(ep, a) ==
    /\ pc \in {"idle", "done"}
    /\ endpoint' = ep
    /\ args' = a
    /\ locals' = NoLocals
    /\ calls' = <<>>
    /\ exception' = NoException
    /\ IF ~Truthy(GITHUB_TOKEN)
       THEN response' = NotConfigured /\ pc' = "done"
       ELSE response' = NoResponse /\ pc' = Program(ep)[1]
    /\ UNCHANGED <<GITHUB_TOKEN, upstream>>

\* an awaited fetch function completes: its value is assigned, or the
\* exception it raised reaches the handler's except clause
Await(step, result, name) ==
    /\ pc = step
    /\ calls' = calls \o result.calls
    /\ IF result.raised # NoException
       THEN /\ exception' = result.raised
            /\ response' = ErrorBody(result.raised)
            /\ pc' = "done"
            /\ UNCHANGED locals
       ELSE /\ locals' = Assign(locals, name, result.value)
            /\ pc' = After(endpoint, step)
            /\ UNCHANGED <<exception, response>>
    /\ UNCHANGED <<GITHUB_TOKEN, upstream, endpoint, args>>

Reply(body) ==
    /\ pc = "return"
    /\ response' = body
    /\ pc' = "done"
    /\ UNCHANGED <<GITHUB_TOKEN, upstream, endpoint, args, locals, calls, exception>>

Orgs == {"microsoft"}
Repos == {"vscode"}
Usernames == {"alice", "bob"}

get_github_data ==
    \E org \in Orgs, repo \in Repos : Enter("github-data", [org |-> org, repo |-> repo])

get_github_user ==
    \E username \in Usernames : Enter("user", [username |-> username])

get_user_repositories_detailed ==
    \E username \in Usernames : Enter("user-repositories", [username |-> username])

get_user_repository_detailed ==
    \E username \in Usernames, repo_name \in Repos :
        Enter("user-repository", [username |-> username, repo_name |-> repo_name])

AwaitOrganizationData ==
    Await("org", get_organization_data(args.org, upstream.org), "org_data")

AwaitRepositoryData ==
    Await("repo", get_repository_data(Owner, RepoName, upstream.repo), "repo_data")

AwaitRepositoryCommits ==
    Await("commits",
          get_repository_commits(Owner, RepoName, upstream.commits, upstream.detail),
          "commits_data")

AwaitRepositoryPullRequests ==
    Await("prs", get_repository_pull_requests(Owner, RepoName, upstream.prs), "prs_data")

AwaitRepositoryIssues ==
    Await("issues", get_repository_issues(Owner, RepoName, upstream.issues), "issues_data")

AwaitUserData ==
    Await("user", get_user_data(args.username, upstream.user), "user_data")

AwaitUserRepositories ==
    Await("user_repos", get_user_repositories(args.username, upstream.user_repos),
          "repositories_data")

\* lines 207-213 and 525-530
Stats(commits_data, prs_data, issues_data) ==
    [totalCommits |-> Len(commits_data),
     totalPRs |-> Len(prs_data),
     totalIssues |-> Len(issues_data),
     activeContributors |-> Cardinality({commits_data[i].author : i \in DOMAIN commits_data})]

\* lines 201-214
ReturnGithubData ==
    /\ endpoint = "github-data"
    /\ Reply([organization |-> locals.org_data,
              repository |-> locals.repo_data,
              commits |-> locals.commits_data,
              pullRequests |-> locals.prs_data,
              issues |-> locals.issues_data,
              stats |-> Assign(Stats(locals.commits_data, locals.prs_data,
                                     locals.issues_data), "repositoriesCount", 1)])

\* lines 411-414
ReturnGithubUser ==
    /\ endpoint = "user"
    /\ Reply([user |-> locals.user_data, repositories |-> locals.repositories_data])

\* lines 486-497
ReturnUserRepositories ==
    /\ endpoint = "user-repositories"
    /\ LET repositories_data == locals.repositories_data
           private == SelectSeq(repositories_data, LAMBDA repo : repo.private)
           public == SelectSeq(repositories_data, LAMBDA repo : ~repo.private)
       IN  Reply([user |-> locals.user_data,
                  repositories |-> repositories_data,
                  total_repos |-> Len(repositories_data),
                  private_repos |-> Len(private),
                  public_repos |-> Len(public),
                  languages |-> {repositories_data[i].language : i \in
                      {j \in DOMAIN repositories_data :
                          repositories_data[j].language # "Unknown"}},
                  total_stars |-> Sum([i \in DOMAIN repositories_data |->
                                          repositories_data[i].stargazers_count]),
                  total_forks |-> Sum([i \in DOMAIN repositories_data |->
                                          repositories_data[i].forks_count])])

\* lines 520-531
ReturnUserRepository ==
    /\ endpoint = "user-repository"
    /\ Reply([repository |-> locals.repo_data,
              commits |-> locals.commits_data,
              pullRequests |-> locals.prs_data,
              issues |-> locals.issues_data,
              stats |-> Stats(locals.commits_data, locals.prs_data, locals.issues_data)])

\* datetime.now().isoformat(): a clock reading rendered as HH:MM:SS
Pad2(n) == IF n < 10 THEN <<"0">> \o Str(n) ELSE Str(n)

Isoformat(now) ==
    Pad2(now.hour) \o <<":">> \o Pad2(now.minute) \o <<":">> \o Pad2(now.second)

\* variant: the status depends on the credential
Healthy_gated(now) ==
    IF Truthy(GITHUB_TOKEN)
    THEN [status |-> "healthy", timestamp |-> Isoformat(now)]
    ELSE [status |-> "unhealthy", timestamp |-> Isoformat(now)]

\* line 396
Healthy(now) == [status |-> "healthy", timestamp |-> Isoformat(now)]

health_check ==
    /\ pc \in {"idle", "done"}
    /\ \E second \in 0..MaxClock :
          response' = Healthy([hour |-> 12, minute |-> 0, second |-> second])
    /\ endpoint' = "health"
    /\ args' = [k \in {} |-> None]
    /\ locals' = NoLocals
    /\ calls' = <<>>
    /\ exception' = NoException
    /\ pc' = "done"
    /\ UNCHANGED <<GITHUB_TOKEN, upstream>>

-----------------------------------------------------------------------------
(* The provider: the upstream objects and replies the model draws from *)

Tokens == {None, "", "ghp_token"}

OrgObject == [login |-> "microsoft", name |-> "Microsoft", description |-> <<"Open source">>]

RepoObject ==
    [name |-> "vscode", description |-> "Visual Studio Code", language |-> "TypeScript",
     stargazers_count |-> 5, forks_count |-> 2,
     html_url |-> "https://github.com/microsoft/vscode",
     updated_at |-> "2024-05-01T10:00:00Z"]

Without(d, key) == [k \in DOMAIN d \ {key} |-> d[k]]

RepoObjects ==
    {RepoObject,
     Without(RepoObject, "language"),
     [RepoObject EXCEPT !.language = None],
     Without(RepoObject, "description"),
     Without(RepoObject, "stargazers_count")}

\* the i-th commit of the upstream list; its hash starts with its position
ShaOf(i) == <<DIGITS[(i \div 10) + 1], DIGITS[(i % 10) + 1], "a", "b", "c", "d", "e", "f">>

CommitObject(i) ==
    [sha |-> ShaOf(i),
     commit |-> [message |-> "Fix bug",
                 author |-> [name |-> IF i % 2 = 0 THEN "alice" ELSE "bob",
                             date |-> "2024-05-01T10:00:00Z"]],
     html_url |-> "https://github.com/microsoft/vscode/commit",
     author |-> [avatar_url |-> "https://avatars.githubusercontent.com/u/1"]]

CommitList(n) == [i \in 1..n |-> CommitObject(i)]

MalformedCommitLists ==
    {<<CommitObject(1), Without(CommitObject(2), "sha")>>,
     <<CommitObject(1), Without(CommitObject(2), "commit"), CommitObject(3)>>,
     <<Without(CommitObject(1), "author"), CommitObject(2)>>}

FileList == <<[filename |-> "a.py", additions |-> 3, deletions |-> 1],
              [filename |-> "b.py", additions |-> 2]>>

DetailReplies ==
    {Ok([sha |-> "x", files |-> FileList]), Ok([sha |-> "x"]), Status(404), TransportFailure}

DetailOk == Ok([sha |-> "x", files |-> FileList])

\* the replies to the per-commit detail calls, by position in the list
DetailPatterns ==
    {[i \in 1..MaxUpstream |-> DetailOk],
     [i \in 1..MaxUpstream |-> Status(404)],
     [i \in 1..MaxUpstream |-> IF i % 2 = 0 THEN Status(404) ELSE DetailOk]}

DetailCombos(n) ==
    {[i \in 1..MaxUpstream |-> IF i <= n THEN f[i] ELSE DetailOk] : f \in [1..n -> DetailReplies]}

UserObject(login) == [login |-> login, avatar_url |-> "https://avatars.githubusercontent.com/u/2"]

PullRequestObject(i) ==
    [number |-> i, title |-> "Add feature", user |-> UserObject("alice"),
     state |-> IF i % 2 = 0 THEN "open" ELSE "closed",
     html_url |-> "https://github.com/microsoft/vscode/pull",
     created_at |-> "2024-05-01T10:00:00Z", updated_at |-> "2024-05-02T10:00:00Z",
     labels |-> <<[name |-> <<"b", "u", "g">>]>>,
     draft |-> (i % 2 = 0)]

PullRequestList(n) == [i \in 1..n |-> PullRequestObject(i)]

LabelNames ==
    {<<"H", "i", "g", "h">>, <<"l", "o", "w">>, <<"b", "u", "g">>,
     <<"H", "I", "G", "H", "E", "S", "T">>, <<"F", "o", "l", "l", "o", "w">>}

RECURSIVE SeqsUpTo(_, _)
SeqsUpTo(S, n) ==
    IF n = 0 THEN {<<>>}
    ELSE SeqsUpTo(S, n - 1) \cup {Append(s, x) : s \in SeqsUpTo(S, n - 1), x \in S}

LabelLists == SeqsUpTo({[name |-> l] : l \in LabelNames}, MaxLabels)

IssueObject(i, labels) ==
    [number |-> i, title |-> "Crash on start", user |-> UserObject("bob"),
     state |-> "open",
     html_url |-> "https://github.com/microsoft/vscode/issues",
     created_at |-> "2024-05-01T10:00:00Z", updated_at |-> "2024-05-02T10:00:00Z",
     labels |-> labels,
     reactions |-> [total_count |-> 1, heart |-> 1]]

\* an entry of the issues endpoint that is a pull request
PullRequestIssue(i) ==
    [k \in DOMAIN IssueObject(i, <<>>) \cup {"pull_request"} |->
        IF k = "pull_request" THEN [url |-> "https://api.github.com/pulls"]
        ELSE IssueObject(i, <<>>)[k]]

IssueList(n, isPR) ==
    [i \in 1..n |-> IF isPR[i] THEN PullRequestIssue(i) ELSE IssueObject(i, <<>>)]

IssueLists ==
    UNION {{IssueList(n, isPR) : isPR \in [1..n -> BOOLEAN]} : n \in 0..MaxCombo}
    \cup UNION {{IssueList(n, [i \in 1..n |-> FALSE]),
                 IssueList(n, [i \in 1..n |-> TRUE]),
                 IssueList(n, [i \in 1..n |-> i % 2 = 1]),
                 IssueList(n, [i \in 1..n |-> i < n]),
                 IssueList(n, [i \in 1..n |-> i = 1])} : n \in (MaxCombo + 1)..MaxUpstream}
    \cup {<<IssueObject(1, labels)>> : labels \in LabelLists}
    \cup {<<Without(IssueObject(1, <<>>), "labels")>>,
          <<IssueObject(1, <<>>), Without(IssueObject(2, <<>>), "title")>>,
          <<Without(PullRequestIssue(1), "title"), IssueObject(2, <<>>)>>}

Owners == {"alice", "bob"}

UserRepoObject(i, owner, private) ==
    [id |-> i, name |-> "repo", full_name |-> "owner/repo",
     description |-> "A repository", language |-> "Python",
     stargazers_count |-> i, forks_count |-> 1,
     updated_at |-> "2024-05-01T10:00:00Z",
     html_url |-> "https://github.com/owner/repo",
     private |-> private, fork |-> FALSE,
     owner |-> [login |-> owner]]

UserRepoLists ==
    UNION {{[i \in 1..n |-> UserRepoObject(i, f[i][1], f[i][2])] :
               f \in [1..n -> Owners \X BOOLEAN]} : n \in 0..MaxCombo}
    \cup {[i \in 1..n |-> UserRepoObject(i, IF i % 3 = 0 THEN "bob" ELSE "alice", i % 2 = 0)] :
             n \in (MaxCombo + 1)..MaxUpstream}
    \cup {<<UserRepoObject(1, "alice", FALSE), Without(UserRepoObject(2, "alice", FALSE), "id")>>,
          <<UserRepoObject(1, "alice", FALSE), Without(UserRepoObject(2, "bob", FALSE), "id")>>,
          <<Without(UserRepoObject(1, "bob", FALSE), "owner")>>}

\* the values of a repository's language: a name, null, or the key absent
Languages == {"Python", "Go", None, "absent"}

WithLanguage(repo, language) ==
    IF language = "absent" THEN Without(repo, "language")
    ELSE [repo EXCEPT !.language = language]

\* one or two repositories of alice, in every combination of languages
LanguageRepoLists ==
    {<<WithLanguage(UserRepoObject(1, "alice", FALSE), l)>> : l \in Languages}
    \cup {<<WithLanguage(UserRepoObject(1, "alice", FALSE), l1),
            WithLanguage(UserRepoObject(2, "alice", TRUE), l2)>> :
             l1 \in Languages, l2 \in Languages}

\* a provider that answers every call with a well-formed 200
Healthy200 ==
    [org |-> Ok(OrgObject),
     repo |-> Ok(RepoObject),
     commits |-> Ok(CommitList(2)),
     detail |-> [i \in 1..MaxUpstream |-> DetailOk],
     prs |-> Ok(PullRequestList(2)),
     issues |-> Ok(IssueList(2, <<FALSE, TRUE>>)),
     user |-> Ok(UserObject("alice")),
     user_repos |-> Ok(<<UserRepoObject(1, "alice", TRUE), UserRepoObject(2, "bob", FALSE)>>)]

CallKinds == {"org", "repo", "commits", "prs", "issues", "user", "user_repos"}

Failures == {Status(404), Status(204), TransportFailure}

\* providers that fail any set of call kinds, all in the same way
FailingProviders ==
    {[k \in DOMAIN Healthy200 |-> IF k \in failing THEN failure ELSE Healthy200[k]] :
        failing \in SUBSET CallKinds, failure \in Failures}

Providers ==
    FailingProviders
    \cup {[Healthy200 EXCEPT !.repo = Ok(r)] : r \in RepoObjects}
    \cup {[Healthy200 EXCEPT !.user = Ok(u)] :
             u \in {Without(UserObject("alice"), "login"), UserObject("Alice")}}
    \cup UNION {{[Healthy200 EXCEPT !.commits = Ok(CommitList(n)), !.detail = d] :
                    d \in DetailCombos(n)} : n \in 0..MaxCombo}
    \cup {[Healthy200 EXCEPT !.commits = Ok(CommitList(n)), !.detail = d] :
             n \in (MaxCombo + 1)..MaxUpstream, d \in DetailPatterns}
    \cup {[Healthy200 EXCEPT !.commits = Ok(c)] : c \in MalformedCommitLists}
    \cup {[Healthy200 EXCEPT !.prs = Ok(PullRequestList(n))] : n \in 0..MaxUpstream}
    \cup {[Healthy200 EXCEPT !.prs =
              Ok(<<PullRequestObject(1), Without(PullRequestObject(2), "number")>>)]}
    \cup {[Healthy200 EXCEPT !.issues = Ok(l)] : l \in IssueLists}
    \cup {[Healthy200 EXCEPT !.user_repos = Ok(l)] : l \in UserRepoLists}
    \cup {[Healthy200 EXCEPT !.user_repos = Ok(l)] : l \in LanguageRepoLists}
    \cup {[Healthy200 EXCEPT !.commits = Ok(CommitList(n)),
                             !.prs = Ok(PullRequestList(n)),
                             !.issues = Ok(IssueList(n, [i \in 1..n |-> i % 4 = 0]))] :
             n \in {LIMIT, MaxUpstream}}

-----------------------------------------------------------------------------
(* The specification *)

Init ==
    /\ GITHUB_TOKEN \in Tokens
    /\ upstream \in Providers
    /\ pc = "idle"
    /\ endpoint = "none"
    /\ args = [k \in {} |-> None]
    /\ locals = NoLocals
    /\ calls = <<>>
    /\ exception = NoException
    /\ response = NoResponse

Next ==
    \/ get_github_data
    \/ get_github_user
    \/ get_user_repositories_detailed
    \/ get_user_repository_detailed
    \/ health_check
    \/ AwaitOrganizationData
    \/ AwaitRepositoryData
    \/ AwaitRepositoryCommits
    \/ AwaitRepositoryPullRequests
    \/ AwaitRepositoryIssues
    \/ AwaitUserData
    \/ AwaitUserRepositories
    \/ ReturnGithubData
    \/ ReturnGithubUser
    \/ ReturnUserRepositories
    \/ ReturnUserRepository

Spec == Init /\ [][Next]_vars

-----------------------------------------------------------------------------
(* Properties *)

Done == pc = "done"

Issued(name) == \E i \in DOMAIN calls : calls[i].call = name

\* the request ended with a bundle, not an error body
ReturnedBundle == Done /\ endpoint \in BundleEndpoints /\ "stats" \in DOMAIN response

Answered200(kind) == upstream[kind].net = "ok" /\ upstream[kind].status = 200

\* the upstream list a 200 reply carries (no list otherwise)
Listed(kind) == IF Answered200(kind) THEN upstream[kind].body ELSE <<>>

(* C1: on each of the four data endpoints, when the credential is unset    *)
(* (None, or empty) the body is exactly the configuration error and no     *)
(* upstream call is issued at any point of the request.                    *)
C1_NoTokenNoUpstream ==
    (endpoint \in DataEndpoints /\ GITHUB_TOKEN \in {None, ""}) =>
        /\ calls = <<>>
        /\ Done
        /\ response = [error |-> <<"GitHub token not configured">>]

C1_Witness ==
    /\ endpoint = "user-repository"
    /\ GITHUB_TOKEN = None
    /\ Done
    /\ upstream = Healthy200

\* the value a fetch function falls back to, and the local it is assigned to
Fallback(call) ==
    CASE call = "org" -> [name |-> args.org, description |-> <<args.org, " Organization">>]
      [] call = "repo" -> [name |-> RepoName, description |-> "Repository not found"]
      [] call = "user" -> [username |-> args.username, name |-> args.username]
      [] OTHER -> <<>>

LocalOf(call) ==
    CASE call = "org" -> "org_data"
      [] call = "repo" -> "repo_data"
      [] call = "commits" -> "commits_data"
      [] call = "prs" -> "prs_data"
      [] call = "issues" -> "issues_data"
      [] call = "user" -> "user_data"
      [] OTHER -> "repositories_data"

(* C2: every upstream call of a fetch function that ends in a non-2xx      *)
(* status or a transport failure yields the function's fallback value, and *)
(* no exception reaches the caller.                                        *)
C2_FailuresYieldFallback ==
    \A i \in DOMAIN calls :
        calls[i].outcome \in {"non2xx", "transport"} =>
            /\ exception.type # "RequestError"
            /\ calls[i].call # "commit_detail" =>
                  /\ LocalOf(calls[i].call) \in DOMAIN locals
                  /\ locals[LocalOf(calls[i].call)] = Fallback(calls[i].call)

(* C3: in the single-repository bundles, when the repository-details call  *)
(* fails (and nothing else goes wrong) the handler returns a bundle whose   *)
(* repository is the placeholder, and the commits, pull-request and issue  *)
(* calls are still issued and their results included.                      *)
C3_PlaceholderOnRepoFailure ==
    ( /\ Done
      /\ endpoint \in BundleEndpoints
      /\ \E i \in DOMAIN calls : calls[i].call = "repo" /\ calls[i].outcome # "200"
      /\ exception = NoException \/ calls[Len(calls)].call = "repo" ) =>
        /\ ReturnedBundle
        /\ response.repository = [name |-> RepoName, description |-> "Repository not found"]
        /\ Issued("commits") /\ Issued("prs") /\ Issued("issues")
        /\ response.commits = locals.commits_data
        /\ response.pullRequests = locals.prs_data
        /\ response.issues = locals.issues_data

(* C4: whatever the length of the upstream lists, the commits, pullRequests *)
(* and issues of a bundle have at most 10 entries each, and totalCommits,   *)
(* totalPRs and totalIssues are those lists' lengths.                       *)
C4_ListsAtMostTen ==
    ReturnedBundle =>
        /\ Len(response.commits) <= 10
        /\ Len(response.pullRequests) <= 10
        /\ Len(response.issues) <= 10
        /\ response.stats.totalCommits = Len(response.commits)
        /\ response.stats.totalPRs = Len(response.pullRequests)
        /\ response.stats.totalIssues = Len(response.issues)

C4_Witness ==
    /\ ReturnedBundle
    /\ Len(Listed("commits")) > 10 /\ Len(response.commits) = 10
    /\ Len(Listed("prs")) > 10 /\ Len(response.pullRequests) = 10
    /\ Len(Listed("issues")) > 10 /\ Len(response.issues) > 0

\* the upstream issues a returned entry may come from: those with its number
SourcesOf(entry) == {j \in DOMAIN Listed("issues") : Str(Listed("issues")[j].number) = entry.id}

MarkedPullRequest(j) == "pull_request" \in DOMAIN Listed("issues")[j]

(* C5: no returned issue corresponds to an upstream entry that carries the *)
(* pull_request marker, and totalIssues counts only the non-pull-request   *)
(* entries.                                                                 *)
C5_NoPullRequestsInIssues ==
    ReturnedBundle =>
        /\ \A k \in DOMAIN response.issues :
              /\ SourcesOf(response.issues[k]) # {}
              /\ \A j \in SourcesOf(response.issues[k]) : ~MarkedPullRequest(j)
        /\ response.stats.totalIssues =
              Cardinality({j \in DOMAIN Listed("issues") :
                  /\ ~MarkedPullRequest(j)
                  /\ \E k \in DOMAIN response.issues : j \in SourcesOf(response.issues[k])})

C5_Witness ==
    /\ ReturnedBundle
    /\ response.issues # <<>>
    /\ \E j \in 1..Len(Listed("issues")) : j < 10 /\ MarkedPullRequest(j)
    /\ response.stats.totalIssues < Len(Listed("issues"))

\* the characters a case-insensitive match accepts at each place of a word
AnyCase(word) ==
    [i \in DOMAIN word |->
        {word[i]} \cup {UPPER[k] : k \in {m \in DOMAIN LOWER : LOWER[m] = word[i]}}]

\* `name` contains `word`, in any mix of cases
Mentions(name, word) ==
    \E k \in 0..(Len(name) - Len(word)) :
        \A i \in DOMAIN word : name[k + i] \in AnyCase(word)[i]

LabelsOf(j) ==
    IF "labels" \in DOMAIN Listed("issues")[j] THEN Listed("issues")[j].labels ELSE <<>>

AnyLabel(j, word) == \E l \in DOMAIN LabelsOf(j) : Mentions(LabelsOf(j)[l].name, word)

(* C6: an issue's priority is "high" if a label name contains "high" in    *)
(* any case; otherwise "low" if one contains "low"; otherwise "medium".    *)
(* Labels of both kinds give "high" in every order; an empty or missing    *)
(* label list gives "medium".                                              *)
C6_PriorityFromLabels ==
    ReturnedBundle =>
        \A k \in DOMAIN response.issues : \A j \in SourcesOf(response.issues[k]) :
            /\ response.issues[k].priority =
                  IF AnyLabel(j, <<"h", "i", "g", "h">>) THEN "high"
                  ELSE IF AnyLabel(j, <<"l", "o", "w">>) THEN "low"
                  ELSE "medium"
            /\ (AnyLabel(j, <<"h", "i", "g", "h">>) /\ AnyLabel(j, <<"l", "o", "w">>))
                  => response.issues[k].priority = "high"
            /\ LabelsOf(j) = <<>> => response.issues[k].priority = "medium"

C6_Witness ==
    /\ ReturnedBundle
    /\ Len(response.issues) = 1
    /\ response.issues[1].priority = "high"
    /\ \E j \in SourcesOf(response.issues[1]) :
          /\ Len(LabelsOf(j)) = 2
          /\ Mentions(LabelsOf(j)[1].name, <<"l", "o", "w">>)
          /\ ~Mentions(LabelsOf(j)[1].name, <<"h", "i", "g", "h">>)
          /\ Mentions(LabelsOf(j)[2].name, <<"h", "i", "g", "h">>)

\* the sum of a count over the files of a commit detail (0 where not reported)
Total(files, key) ==
    Sum([k \in DOMAIN files |-> IF key \in DOMAIN files[k] THEN files[k][key] ELSE 0])

FilesOf(i) ==
    IF "files" \in DOMAIN upstream.detail[i].body THEN upstream.detail[i].body.files ELSE <<>>

DetailFetched(i) == upstream.detail[i].net = "ok" /\ upstream.detail[i].status = 200

(* C7: for an upstream list of n (well-formed) commits and any combination *)
(* of detail fetch outcomes, the commit list has min(n, 10) entries in     *)
(* upstream order; an entry whose detail fetch succeeded carries the count *)
(* and sums over the detail's files, and one whose detail fetch failed is  *)
(* present with files_changed, additions and deletions 0.                  *)
C7_CommitsDegradeGracefully ==
    (Issued("commits") /\ Answered200("commits") /\ exception.type # "KeyError") =>
        /\ "commits_data" \in DOMAIN locals
        /\ LET n == Len(Listed("commits"))
               detailed == locals.commits_data
           IN  /\ Len(detailed) = IF n < 10 THEN n ELSE 10
               /\ \A i \in DOMAIN detailed :
                     /\ detailed[i].id = SubSeq(Listed("commits")[i].sha, 1, 7)
                     /\ DetailFetched(i) =>
                           /\ detailed[i].files_changed = Len(FilesOf(i))
                           /\ detailed[i].additions = Total(FilesOf(i), "additions")
                           /\ detailed[i].deletions = Total(FilesOf(i), "deletions")
                     /\ ~DetailFetched(i) =>
                           /\ detailed[i].files_changed = 0
                           /\ detailed[i].additions = 0
                           /\ detailed[i].deletions = 0

\* the positions of the upstream repositories owned by the requested user
OwnedPositions ==
    {j \in DOMAIN Listed("user_repos") : Listed("user_repos")[j].owner.login = args.username}

\* the k-th of them, in upstream order
NthOwned(k) ==
    CHOOSE j \in OwnedPositions : Cardinality({m \in OwnedPositions : m <= j}) = k

(* C8: /api/github/user/{username}/repositories returns exactly the        *)
(* upstream entries whose owner login is the requested username, in         *)
(* upstream order; total_repos is their number, and private_repos plus     *)
(* public_repos is total_repos.                                            *)
C8_OnlyOwnedRepositories ==
    (Done /\ endpoint = "user-repositories" /\ "total_repos" \in DOMAIN response) =>
        /\ Len(response.repositories) = Cardinality(OwnedPositions)
        /\ \A k \in DOMAIN response.repositories :
              /\ response.repositories[k].id = Listed("user_repos")[NthOwned(k)].id
              /\ response.repositories[k].private = Listed("user_repos")[NthOwned(k)].private
        /\ response.total_repos = Cardinality(OwnedPositions)
        /\ response.private_repos + response.public_repos = response.total_repos

C8_Witness ==
    /\ Done /\ endpoint = "user-repositories" /\ "total_repos" \in DOMAIN response
    /\ args.username = "alice"
    /\ Len(Listed("user_repos")) = 3
    /\ Listed("user_repos")[2].owner.login = "bob"
    /\ response.total_repos = 2
    /\ response.private_repos = 1

(* C9: /health always answers status "healthy" with a timestamp, with or   *)
(* without a credential and whatever the upstream does, and issues no      *)
(* upstream call.                                                          *)
C9_HealthAlwaysHealthy ==
    endpoint = "health" =>
        /\ Done
        /\ response.status = "healthy"
        /\ "timestamp" \in DOMAIN response
        /\ response.timestamp # <<>>
        /\ calls = <<>>

C9_Witness ==
    /\ endpoint = "health"
    /\ Done
    /\ GITHUB_TOKEN = None
    /\ upstream.repo = TransportFailure
    /\ upstream.user = TransportFailure

\* the position in the handler's sequence of the fetch function that issued a call
StepOf(call) ==
    LET step == IF call = "commit_detail" THEN "commits" ELSE call IN
    CHOOSE k \in DOMAIN Program(endpoint) : Program(endpoint)[k] = step

(* C10: with the credential configured, an exception raised at any step of *)
(* a data endpoint's aggregation is caught by the handler: the request ends *)
(* with body {error: <message>}, never a partial bundle, and no upstream   *)
(* call is issued after the failing step.                                  *)
C10_ExceptionsBecomeErrorBodies ==
    exception # NoException =>
        /\ Done
        /\ endpoint \in DataEndpoints
        /\ response = [error |-> exception.msg]
        /\ calls # <<>>
        /\ StepOf(calls[Len(calls)].call) = Cardinality(DOMAIN locals) + 1
        /\ \A i \in DOMAIN calls : StepOf(calls[i].call) <= Cardinality(DOMAIN locals) + 1

C10_Witness ==
    /\ Done
    /\ endpoint = "github-data"
    /\ exception = [type |-> "KeyError", msg |-> <<"'", "commit", "'">>]
    /\ DOMAIN locals = {"org_data", "repo_data"}
    /\ response = [error |-> <<"'", "commit", "'">>]
    /\ ~Issued("prs") /\ ~Issued("issues")

\* an upstream repository object that carries no language value
NoLanguage(repo) == "language" \notin DOMAIN repo \/ repo.language = None

\* the upstream repositories a returned entry may come from: those with its id
RepoSourcesOf(entry) ==
    {j \in DOMAIN Listed("user_repos") :
        /\ "id" \in DOMAIN Listed("user_repos")[j]
        /\ Listed("user_repos")[j].id = entry.id}

(* C11: whenever an upstream repository object carries no language (the    *)
(* key missing, or null) the translated summary's language is "Unknown";   *)
(* and the languages rollup of the user-repositories bundle holds only      *)
(* actual language names, never "Unknown" and never null.                   *)
C11_UnknownWhenNoLanguage ==
    /\ (ReturnedBundle /\ Answered200("repo") /\ NoLanguage(upstream.repo.body)) =>
          response.repository.language = "Unknown"
    /\ (Done /\ endpoint = "user-repositories" /\ "languages" \in DOMAIN response) =>
          /\ \A k \in DOMAIN response.repositories :
                \A j \in RepoSourcesOf(response.repositories[k]) :
                    NoLanguage(Listed("user_repos")[j]) =>
                        response.repositories[k].language = "Unknown"
          /\ "Unknown" \notin response.languages
          /\ None \notin response.languages

\* the positions, among the first 10 upstream entries, of the genuine issues
KeptPositions ==
    {j \in DOMAIN Listed("issues") : j <= 10 /\ ~MarkedPullRequest(j)}

\* the k-th of them, in upstream order
NthKept(k) ==
    CHOOSE j \in KeptPositions : Cardinality({m \in KeptPositions : m <= j}) = k

(* C12: the returned issues are exactly the entries without the           *)
(* pull_request marker among the first 10 upstream entries, in upstream    *)
(* order (the window is taken before the filter); a genuine issue at       *)
(* position 11 or later never appears, even when fewer than 10 issues are  *)
(* returned.                                                               *)
C12_WindowBeforeFilter ==
    (ReturnedBundle /\ Answered200("issues")) =>
        /\ Len(response.issues) = Cardinality(KeptPositions)
        /\ \A k \in DOMAIN response.issues :
              response.issues[k].id = Str(Listed("issues")[NthKept(k)].number)
        /\ \A j \in DOMAIN Listed("issues") :
              (j > 10 /\ ~MarkedPullRequest(j)) =>
                  \A k \in DOMAIN response.issues :
                      response.issues[k].id # Str(Listed("issues")[j].number)

C12_Witness ==
    /\ ReturnedBundle /\ Answered200("issues")
    /\ Len(Listed("issues")) > 10
    /\ ~MarkedPullRequest(11)
    /\ MarkedPullRequest(1)
    /\ Len(response.issues) = 9
    /\ response.issues[9].id = <<"1", "0">>

=============================================================================
